---- MODULE Spec2Model ----
(***************************************************************************)
(* A model of fm163 (src/fm163.py): the download reconcile loop against    *)
(* the remote Track store, and the export/migrate path with its            *)
(* write-then-rename persistence of the history and metadata files.        *)
(***************************************************************************)
EXTENDS Integers, Sequences, FiniteSets, TLC

\* ------------------------------------------------------------ bounds
NumIds == 2
MaxLen == 2
MaxRuns == 2
MaxMeta == 2
MaxOld == 1
MaxResp == 1
MaxDfsId == 2
MaxPref == 2

\* ------------------------------------------------- program constants
EX_OK == 0
EX_FAIL == 1
EX_SOFTWARE == 70
EX_IOERR == 74

\* ------------------------------------------------------- data model
Ids == 1..NumIds
Names == {"x", "y"}
Track == [id : Ids, name : Names]

RECURSIVE SeqsUpTo(_, _)
SeqsUpTo(S, n) ==
    IF n = 0 THEN {<<>>}
    ELSE LET shorter == SeqsUpTo(S, n - 1)
         IN  shorter \cup {Append(s, x) : s \in {t \in shorter : Len(t) = n - 1}, x \in S}

\* what playlist_detail can return: a TrackId names one catalog entry
Catalog == {t \in Track : t.name = "x"}
Playlist == SeqsUpTo(Catalog, MaxLen)

Range(s) == {s[k] : k \in 1..Len(s)}
IdsOf(s) == {s[k].id : k \in 1..Len(s)}
Count(s, i) == Cardinality({k \in 1..Len(s) : s[k].id = i})

Min(S) == CHOOSE m \in S : \A x \in S : m <= x

\* a SortedSet iterated (list(history), and the order pickle stores)
RECURSIVE SortedSeq(_)
SortedSeq(S) ==
    IF S = {} THEN <<>> ELSE <<Min(S)>> \o SortedSeq(S \ {Min(S)})

\* ---------------------------------------------------------- files
Paths == {"history", "meta.json", "songs_id.json"}
Tmp == "tmp"
Absent == [fmt |-> "absent", kind |-> "", data |-> <<>>]
Empty == [fmt |-> "empty", kind |-> "", data |-> <<>>]
Corrupt == [fmt |-> "corrupt", kind |-> "", data |-> <<>>]
\* a file somebody is still writing: a prefix of the serialized value
Partial(data) == [fmt |-> "partial", kind |-> "", data |-> data]
Pickled(kind, data) == [fmt |-> "pickle", kind |-> kind, data |-> data]
Json(data) == [fmt |-> "json", kind |-> "list", data |-> data]

Line(kind, name, a, b) == [kind |-> kind, name |-> name, a |-> a, b |-> b]
NoResult == [kind |-> "none", code |-> EX_OK, why |-> ""]
Exit(code, why) == [kind |-> "exit", code |-> code, why |-> why]
Killed == [kind |-> "killed", code |-> EX_FAIL, why |-> ""]
\* download returned, or raised AllTracksSkippedException, and main exited 0
Completed(r) ==
    r.kind = "exit" /\ r.code = EX_OK /\ r.why \in {"download", "AllTracksSkippedException"}

VARIABLES
    pc,          \* position of the running process ("idle": no process)
    playlist,    \* download: the fetched playlist
    dry_run,     \* download: the -D flag
    idx,         \* download: position of the for loop in the playlist
    skipped,     \* download: the skip counter
    lean,        \* the remote Track store queried and extended by download
    ncm,         \* per TrackId, how often the external downloader ran
    stdout,      \* lines printed by the current (or last) run
    result,      \* how the last run ended
    attempts,    \* download_track calls of the current (or last) run
    interrupted, \* per TrackId, runs that ended between download_track and save
    lean0,       \* the remote store when the current run started
    rerun,       \* the run repeats the playlist of the run before it, which completed
    runs,        \* number of runs started
    fs,          \* the files of ~/.fm163, and the temporary file of serialize
    ser,         \* the running (or last) serialize call
    history,     \* export: the loaded ledger
    meta,        \* export: the metadata records in memory
    missing,     \* update_meta: the ids asked for
    todo,        \* update_meta: the budget
    fetches,     \* songs_detail calls of the current (or last) run
    mode,        \* the mode main chose for the current (or last) run
    trackCount,  \* download: the track count the remote declares for the playlist
    other,       \* a second download process on the same playlist and store
    dfs_track,   \* dfs_id: the quality variants of the track
    qualities,   \* dfs_id: the preference tuple
    dfsid        \* dfs_id: what the call returned or raised

vars == <<pc, playlist, dry_run, idx, skipped, lean, ncm, stdout, result,
          attempts, interrupted, lean0, rerun, runs,
          fs, ser, history, meta, missing, todo, fetches,
          mode, trackCount, other, dfs_track, qualities, dfsid>>

dlLocals == <<playlist, trackCount, dry_run, idx, skipped>>
dlVars == <<playlist, trackCount, dry_run, idx, skipped, lean, ncm, attempts, interrupted,
            lean0, rerun>>
exLocals == <<history, meta, missing, todo, fetches>>
exVars == <<fs, ser, history, meta, missing, todo, fetches>>
dfsVars == <<dfs_track, qualities, dfsid>>
\* what the steps of a run of the first process leave alone
rest == <<mode, other, dfsVars>>

\* the quality variants a track record may carry, and dfs_id's answer
Qualities == {"hMusic", "bMusic", "mMusic"}
NoVariant == [state |-> "absent", dfsId |-> 0]
NoCall == [out |-> "none", val |-> 0]
NoOther == [pc |-> "idle", idx |-> 1, playlist |-> <<>>, dry_run |-> FALSE,
            serialized |-> TRUE]
\* the variables the download, export and migrate runs never touch
Unused ==
    /\ other = NoOther
    /\ dfs_track = [q \in Qualities |-> NoVariant]
    /\ qualities = <<>>
    /\ dfsid = NoCall

NoSer == [path |-> "", old |-> Absent, new |-> Absent, written |-> 0, ret |-> ""]

\* a new process: nothing of the other modes' variables is set
FreshExport ==
    /\ ser' = NoSer
    /\ history' = {}
    /\ meta' = <<>>
    /\ missing' = {}
    /\ todo' = 0
    /\ fetches' = <<>>

FreshDownload ==
    /\ playlist' = <<>>
    /\ trackCount' = 0
    /\ dry_run' = FALSE
    /\ idx' = 1
    /\ skipped' = 0
    /\ attempts' = <<>>
    /\ lean0' = lean
    /\ rerun' = FALSE

Init ==
    /\ pc = "idle"
    /\ playlist = <<>>
    /\ dry_run = FALSE
    /\ idx = 1
    /\ skipped = 0
    /\ lean = <<>>
    /\ ncm = [i \in Ids |-> 0]
    /\ stdout = <<>>
    /\ result = NoResult
    /\ attempts = <<>>
    /\ interrupted = [i \in Ids |-> 0]
    /\ lean0 = <<>>
    /\ rerun = FALSE
    /\ runs = 0
    /\ fs = [p \in Paths \cup {Tmp} |-> Absent]
    /\ ser = NoSer
    /\ history = {}
    /\ meta = <<>>
    /\ missing = {}
    /\ todo = 0
    /\ fetches = <<>>
    /\ mode = ""
    /\ trackCount = 0
    /\ Unused

\* ------------------------------------------------------- download
\* mutant: the store never finds the id
QueryFirstNever(store, track_id) == FALSE
\* mutant: first() without the equal_to filter
QueryFirstAny(store, track_id) == store # <<>>
\* mutant: not_equal_to instead of equal_to
QueryFirstOther(store, track_id) == \E k \in 1..Len(store) : store[k].id # track_id

\* query.equal_to('id', track_id); query.first(): found or LeanCloudError 101
QueryFirst(store, track_id) == \E k \in 1..Len(store) : store[k].id = track_id

\* mutant: the record is built and never saved
SaveNothing(store, track) == store

\* t = lean_track(track); t.save()
SaveTrack(store, track) == Append(store, track)

\* mutant: the dry_run test inverted
InvokesInverted(dry) == dry

\* mutant: the downloader runs whatever dry_run says
InvokesAlways(dry) == TRUE

\* download_track: the downloader runs unless dry_run
Invokes(dry) == ~dry

\* mutant: subprocess.run(..., check=True)
AfterDownloadChecked(ok) == IF ok THEN "save" ELSE "raise"

\* subprocess.run without check: whatever the downloader's status, t.save() follows
AfterDownload(ok) == "save"

\* the track counts the remote may declare for the tracks it returns: the
\* number returned, one fewer or one more. download never reads the declared
\* count, so trackCount takes its value where the skip report is made.
Declared(pl) == {n \in 0..(Len(pl) + 1) : Len(pl) <= n + 1}

\* main, download branch: playlist_detail returned pl
StartDownload ==
    /\ pc = "idle"
    /\ runs < MaxRuns
    /\ \E pl \in Playlist, d \in BOOLEAN :
        /\ playlist' = pl
        /\ dry_run' = d
    /\ trackCount' = 0
    /\ mode' = "download"
    /\ idx' = 1
    /\ skipped' = 0
    /\ stdout' = <<>>
    /\ attempts' = <<>>
    /\ result' = NoResult
    /\ lean0' = lean
    /\ rerun' = (Completed(result) /\ playlist' = playlist)
    /\ runs' = runs + 1
    /\ pc' = "query"
    /\ FreshExport
    /\ UNCHANGED <<lean, ncm, interrupted, fs, other, dfsVars>>

\* playlist_detail raises TooManyTracksException: main exits 1
TooManyTracks ==
    /\ pc = "idle"
    /\ runs < MaxRuns
    /\ runs' = runs + 1
    /\ result' = Exit(EX_FAIL, "TooManyTracksException")
    /\ stdout' = <<>>
    /\ mode' = "download"
    /\ FreshDownload
    /\ FreshExport
    /\ UNCHANGED <<pc, lean, ncm, interrupted, fs, other, dfsVars>>

\* the loop body's else branch: the id is in the store
QueryFound ==
    /\ pc = "query"
    /\ idx <= Len(playlist)
    /\ QueryFirst(lean, playlist[idx].id)
    /\ stdout' = Append(stdout, Line("SKIP", playlist[idx].name, playlist[idx].id, 0))
    /\ skipped' = skipped + 1
    /\ idx' = idx + 1
    /\ UNCHANGED <<pc, playlist, trackCount, dry_run, lean, ncm, result, attempts,
                   interrupted, lean0, rerun, runs, rest, exVars>>

\* LeanCloudError with code 101
QueryNotFound ==
    /\ pc = "query"
    /\ idx <= Len(playlist)
    /\ ~QueryFirst(lean, playlist[idx].id)
    /\ pc' = "download_track"
    /\ UNCHANGED <<dlLocals, lean, ncm, stdout, result, attempts,
                   interrupted, lean0, rerun, runs, rest, exVars>>

\* LeanCloudError with another code: re-raised, caught by nobody
QueryError ==
    /\ pc = "query"
    /\ idx <= Len(playlist)
    /\ pc' = "idle"
    /\ result' = [kind |-> "uncaught", code |-> EX_FAIL, why |-> "LeanCloudError"]
    /\ UNCHANGED <<dlLocals, lean, ncm, stdout, attempts, interrupted,
                   lean0, rerun, runs, rest, exVars>>

\* download_track(track_id, dry_run); the downloader's exit status is ignored
DownloadTrack ==
    /\ pc = "download_track"
    /\ LET track_id == playlist[idx].id IN
       \E ok \in BOOLEAN :
        /\ ncm' = IF Invokes(dry_run)
                  THEN [ncm EXCEPT ![track_id] = @ + 1] ELSE ncm
        /\ attempts' = Append(attempts,
                [id |-> track_id, invoked |-> Invokes(dry_run),
                 ok |-> ok \/ ~Invokes(dry_run)])
        /\ pc' = AfterDownload(ok \/ ~Invokes(dry_run))
    /\ UNCHANGED <<dlLocals, lean, stdout, result, interrupted, lean0, rerun, runs, rest, exVars>>

\* t.save()
Save ==
    /\ pc = "save"
    /\ lean' = SaveTrack(lean, playlist[idx])
    /\ idx' = idx + 1
    /\ pc' = "query"
    /\ UNCHANGED <<playlist, trackCount, dry_run, skipped, ncm, stdout, result, attempts,
                   interrupted, lean0, rerun, runs, rest, exVars>>

\* t.save() raises LeanCloudError inside the handler: caught by nobody
SaveError ==
    /\ pc = "save"
    /\ pc' = "idle"
    /\ result' = [kind |-> "uncaught", code |-> EX_FAIL, why |-> "LeanCloudError"]
    /\ interrupted' = IF Invokes(dry_run)
                      THEN [interrupted EXCEPT ![playlist[idx].id] = @ + 1]
                      ELSE interrupted
    /\ UNCHANGED <<dlLocals, lean, ncm, stdout, attempts, lean0, rerun, runs, rest, exVars>>

\* mutant: the skipped == 0 test dropped
RaisesWhenEqual(k, n) == k = n

\* the skip report after the loop, and main's handling of what it raises
Raises(k, n) == k # 0 /\ k = n
Summary(k, n) == k # 0 /\ k # n

\* mutant: the total taken from the remote's declaration
PlaylistLengthDeclared(pl, declared) == declared

\* playlist_length, the total the skip count is compared with
PlaylistLength(pl, declared) == Len(pl)

Report ==
    /\ pc = "query"
    /\ idx > Len(playlist)
    /\ trackCount' \in Declared(playlist)
    /\ LET n == PlaylistLength(playlist, trackCount') IN
       IF Raises(skipped, n)
       THEN /\ stdout' = Append(stdout, Line("Skipped all tracks in the playlist.", "", 0, 0))
            /\ result' = Exit(EX_OK, "AllTracksSkippedException")
       ELSE /\ stdout' = IF Summary(skipped, n)
                         THEN Append(stdout, Line("Skipped of", "", skipped, n))
                         ELSE stdout
            /\ result' = Exit(EX_OK, "download")
    /\ pc' = "idle"
    /\ UNCHANGED <<playlist, dry_run, idx, skipped, lean, ncm, attempts, interrupted,
                   lean0, rerun, runs, rest, exVars>>

\* ---------------------------------------------------- serialize
\* pickle.dump of a SortedSet / json.dump of a list: the value as stored
EncodeHistory(h) == Pickled("SortedSet", SortedSeq(h))

\* mutant: the ids written in descending order
EncodeIdsDescending(h) ==
    Json([k \in 1..Cardinality(h) |-> SortedSeq(h)[Cardinality(h) + 1 - k]])

\* json.dump of list(history): a SortedSet iterates in ascending order
EncodeIds(h) == Json(SortedSeq(h))

EncodeMeta(m) == Json(m)

\* mutant: the destination opened instead of the temporary file
WriteInPlace(path) == path

\* the path the serializer's output is written to
WriteTarget(path) == Tmp

\* mutant: the rename in a finally clause
RenamesAlways(raised) == TRUE

\* the else clause of serialize: the rename happens only if nothing was raised
Renames(raised) == ~raised

\* serialize(thing, path, mode, serializer) is entered
Call(path, file, ret) ==
    /\ ser' = [path |-> path, old |-> fs[path], new |-> file, written |-> 0, ret |-> ret]
    /\ pc' = "mkstemp"

\* tempfile.mkstemp: an empty temporary file in the configuration directory
Mkstemp ==
    /\ pc = "mkstemp"
    /\ fs' = [fs EXCEPT ![Tmp] = Partial(<<>>)]
    /\ pc' = "write"
    /\ UNCHANGED <<dlVars, stdout, result, runs, rest, ser, exLocals>>

\* the serializer writes the next piece of the value
Write ==
    /\ pc = "write"
    /\ ser.written < Len(ser.new.data)
    /\ fs' = [fs EXCEPT ![WriteTarget(ser.path)] =
                 Partial(SubSeq(ser.new.data, 1, ser.written + 1))]
    /\ ser' = [ser EXCEPT !.written = @ + 1]
    /\ UNCHANGED <<pc, dlVars, stdout, result, runs, rest, exLocals>>

\* the serializer returns and the with block closes the file
WriteEnd ==
    /\ pc = "write"
    /\ ser.written = Len(ser.new.data)
    /\ fs' = [fs EXCEPT ![WriteTarget(ser.path)] = ser.new]
    /\ pc' = "replace"
    /\ UNCHANGED <<dlVars, stdout, result, runs, rest, ser, exLocals>>

\* the serializer raises OverflowError, TypeError, ValueError or PicklingError: bug()
SerializerError ==
    /\ pc = "write"
    /\ fs' = IF Renames(TRUE) THEN [fs EXCEPT ![ser.path] = fs[Tmp], ![Tmp] = Absent]
              ELSE fs
    /\ result' = Exit(EX_SOFTWARE, "serializer")
    /\ pc' = "idle"
    /\ UNCHANGED <<dlVars, stdout, runs, rest, ser, exLocals>>

\* os.close(temporary_file_handler); os.replace(temporary_file_path, path)
Replace ==
    /\ pc = "replace"
    /\ fs' = IF Renames(FALSE) THEN [fs EXCEPT ![ser.path] = fs[Tmp], ![Tmp] = Absent]
              ELSE fs
    /\ IF ser.ret = "exit"
       THEN /\ pc' = "idle"
            /\ result' = Exit(EX_OK, "export_history")
       ELSE /\ pc' = ser.ret
            /\ UNCHANGED result
    /\ UNCHANGED <<dlVars, stdout, runs, rest, ser, exLocals>>

\* --------------------------------------------------------- loading
\* load_history: pickle.load of the history file
LoadHistory(f) ==
    CASE f.fmt = "absent" -> [out |-> "ok", val |-> {}]
      [] f.fmt = "pickle" /\ f.kind = "SortedSet" -> [out |-> "ok", val |-> Range(f.data)]
      [] f.fmt = "pickle" /\ f.kind = "list" -> [out |-> "list", val |-> Range(f.data)]
      [] f.fmt = "empty" -> [out |-> "EOFError", val |-> {}]
      [] OTHER -> [out |-> "bug", val |-> {}]

\* mutant: a meta.json that cannot be parsed read as an empty list
LoadMetaLenient(f) ==
    [out |-> "ok", val |-> IF f.fmt = "json" THEN f.data ELSE <<>>]

\* load_meta: json.load of meta.json
LoadMeta(f) ==
    CASE f.fmt = "absent" -> [out |-> "ok", val |-> <<>>]
      [] f.fmt = "json" -> [out |-> "ok", val |-> f.data]
      [] OTHER -> [out |-> "bug", val |-> <<>>]

\* load_old_history: the file must exist
LoadOldHistory(f) ==
    CASE f.fmt = "absent" -> [out |-> "OSError", val |-> {}]
      [] f.fmt = "pickle" -> [out |-> "ok", val |-> Range(f.data)]
      [] f.fmt = "empty" -> [out |-> "EOFError", val |-> {}]
      [] OTHER -> [out |-> "bug", val |-> {}]

\* the keys of {track["id"]: track for track in meta}: first insertion order
RECURSIVE FirstIds(_)
FirstIds(m) ==
    IF m = <<>> THEN <<>>
    ELSE LET front == SubSeq(m, 1, Len(m) - 1)
             last == m[Len(m)].id
         IN  IF last \in IdsOf(front) THEN FirstIds(front)
             ELSE Append(FirstIds(front), last)

\* mutant: the dict keeps the first record with the id
FirstWith(m, i) == m[CHOOSE k \in 1..Len(m) :
                       m[k].id = i /\ \A j \in 1..(k - 1) : m[j].id # i]

\* the value the dict keeps for a key: the last record with that id
LastWith(m, i) == m[CHOOSE k \in 1..Len(m) :
                      m[k].id = i /\ \A j \in (k + 1)..Len(m) : m[j].id # i]

\* deduplicate(meta): (SortedSet(d.keys()), list(d.values()))
Deduplicate(m) ==
    [ids |-> IdsOf(m),
     meta |-> [k \in 1..Len(FirstIds(m)) |-> LastWith(m, FirstIds(m)[k])]]

\* mutant: history replaced by the ids of the metadata
ReplaceIds(h, ids) == ids

\* history.update(ids)
UpdateIds(h, ids) == h \cup ids

\* sys.exit after bug() or catch_error
Abort(out) ==
    IF out = "bug" THEN Exit(EX_SOFTWARE, "bug")
    ELSE IF out \in {"EOFError", "OSError"} THEN Exit(EX_IOERR, out)
    ELSE [kind |-> "uncaught", code |-> EX_FAIL, why |-> "AttributeError"]

StartRun(first) ==
    /\ pc = "idle"
    /\ runs < MaxRuns
    /\ runs' = runs + 1
    /\ stdout' = <<>>
    /\ result' = NoResult
    /\ FreshExport
    /\ FreshDownload
    /\ mode' = first
    /\ pc' = first
    /\ UNCHANGED <<lean, ncm, interrupted, fs, other, dfsVars>>

\* main with -j
StartExport == StartRun("export_history")

\* main with -m
StartMigrate == StartRun("migrate")

\* migrate: load_old_history(); save_history(SortedSet(history))
Migrate ==
    /\ pc = "migrate"
    /\ LET old == LoadOldHistory(fs["history"]) IN
       IF old.out = "ok"
       THEN /\ Call("history", EncodeHistory(old.val), "export_history")
            /\ UNCHANGED result
       ELSE /\ result' = Abort(old.out)
            /\ pc' = "idle"
            /\ UNCHANGED ser
    /\ UNCHANGED <<dlVars, stdout, runs, rest, fs, exLocals>>

\* export_history: load_history(), deduplicate(load_meta()), history - track_ids
ExportHistory ==
    /\ pc = "export_history"
    /\ LET h == LoadHistory(fs["history"])
           m == LoadMeta(fs["meta.json"])
           d == Deduplicate(m.val)
       IN  IF h.out \in {"ok", "list"} /\ m.out = "ok"
           THEN IF h.out = "list"
                THEN /\ result' = Abort("AttributeError")
                     /\ pc' = "idle"
                     /\ UNCHANGED <<history, meta, missing, todo>>
                ELSE /\ history' = h.val
                     /\ meta' = d.meta
                     /\ missing' = h.val \ d.ids
                     /\ todo' = Cardinality(h.val \ d.ids)
                     /\ pc' = "update_history"
                     /\ UNCHANGED result
           ELSE /\ result' = Abort(IF h.out \in {"ok", "list"} THEN m.out ELSE h.out)
                /\ pc' = "idle"
                /\ UNCHANGED <<history, meta, missing, todo>>
    /\ UNCHANGED <<dlVars, stdout, runs, rest, fs, ser, fetches>>

\* update_history: history.update(ids); save_history(history)
UpdateHistory ==
    /\ pc = "update_history"
    /\ history' = UpdateIds(history, IdsOf(meta))
    /\ Call("history", EncodeHistory(history'), "json_dump")
    /\ UNCHANGED <<dlVars, stdout, result, runs, rest, fs, meta, missing, todo, fetches>>

\* update_history: json_dump(list(history), configuration_file('songs_id.json'))
JsonDumpIds ==
    /\ pc = "json_dump"
    /\ Call("songs_id.json", EncodeIds(history), "update_meta")
    /\ UNCHANGED <<dlVars, stdout, result, runs, rest, fs, exLocals>>

\* what songs_detail may answer
Response == SeqsUpTo(Catalog, MaxResp)

\* update_meta with todo = 0
UpdateMetaPass ==
    /\ pc = "update_meta"
    /\ todo = 0
    /\ pc' = "save_meta"
    /\ UNCHANGED <<dlVars, stdout, result, runs, rest, fs, ser, exLocals>>

\* mutant: another round also when the round fetched nothing new
RecursesLeq(n_still, budget) == n_still <= budget

\* mutant: never another round
RecursesNever(n_still, budget) == FALSE

\* len(still_missing) < todo: update_meta calls itself
Recurses(n_still, budget) == n_still < budget

\* update_meta: one songs_detail round
UpdateMeta ==
    /\ pc = "update_meta"
    /\ todo # 0
    /\ \E songs_detail \in Response :
        LET fetched == IdsOf(songs_detail)
            still_missing == missing \ fetched
        IN  /\ meta' = meta \o songs_detail
            /\ fetches' = Append(fetches, [asked |-> missing, got |-> fetched])
            /\ IF Cardinality(still_missing) > 0
               THEN IF Recurses(Cardinality(still_missing), todo)
                    THEN /\ missing' = still_missing
                         /\ todo' = Cardinality(still_missing)
                         /\ UNCHANGED <<pc, stdout>>
                    ELSE /\ stdout' = Append(stdout, Line("Cannot fetch", "", todo, 0))
                         /\ pc' = "save_meta"
                         /\ UNCHANGED <<missing, todo>>
               ELSE /\ pc' = "save_meta"
                    /\ UNCHANGED <<missing, todo, stdout>>
    /\ UNCHANGED <<dlVars, result, runs, rest, fs, ser, history>>

\* save_meta(meta)
SaveMeta ==
    /\ pc = "save_meta"
    /\ Call("meta.json", EncodeMeta(meta), "exit")
    /\ UNCHANGED <<dlVars, stdout, result, runs, rest, fs, exLocals>>

\* the process is killed
Kill ==
    /\ pc # "idle"
    /\ pc' = "idle"
    /\ result' = Killed
    /\ interrupted' = IF pc = "save" /\ Invokes(dry_run)
                      THEN [interrupted EXCEPT ![playlist[idx].id] = @ + 1]
                      ELSE interrupted
    /\ UNCHANGED <<dlLocals, lean, ncm, stdout, attempts, lean0, rerun, runs, rest, exVars>>

Next ==
    \/ StartDownload
    \/ TooManyTracks
    \/ QueryFound
    \/ QueryNotFound
    \/ QueryError
    \/ DownloadTrack
    \/ Save
    \/ SaveError
    \/ Report
    \/ Kill

Spec == Init /\ [][Next]_vars

\* ------------------------------------------------ download: properties
Last(s) == s[Len(s)]
Distinct(s) == \A j, k \in 1..Len(s) : j # k => s[j].id # s[k].id
SkipLine(t) == Line("SKIP", t.name, t.id, 0)
AllSkippedLine == Line("Skipped all tracks in the playlist.", "", 0, 0)
SkipLines == SelectSeq(stdout, LAMBDA l : l.kind = "SKIP")
Signalled == result = Exit(EX_OK, "AllTracksSkippedException")
Returned == pc = "idle" /\ Completed(result)
\* the records the current (or last) run has added to the store
Registered == SubSeq(lean, Len(lean0) + 1, Len(lean))

\* C5: idempotence. A completed download of a non-empty playlist followed by a
\* download of the same playlist: the second run calls download_track never (so
\* the downloader never runs), leaves the store as it found it, and when it
\* ends it has skipped every track, raised AllTracksSkippedException, and main
\* has printed "Skipped all tracks in the playlist." and exited 0.
C5_Idempotence ==
    (rerun /\ playlist # <<>>) =>
        /\ attempts = <<>>
        /\ lean = lean0
        /\ pc \in {"idle", "query"}
        /\ (pc = "idle" /\ result.kind = "exit") =>
              /\ Signalled
              /\ skipped = Len(playlist)
              /\ stdout = [k \in 1..(Len(playlist) + 1) |->
                             IF k <= Len(playlist) THEN SkipLine(playlist[k])
                             ELSE AllSkippedLine]

C5_Witness ==
    /\ rerun
    /\ playlist # <<>>
    /\ pc = "idle"
    /\ Signalled
    /\ \E i \in Ids : ncm[i] = 1

\* C6: first run on an empty store. A completed download of n pairwise distinct
\* tracks against an empty store leaves exactly the n tracks in the store, one
\* record each, after exactly one download_track call per track (which ran the
\* downloader unless dry_run), with no SKIP line, no summary and no
\* AllTracksSkippedException.
C6_FirstRun ==
    (Returned /\ lean0 = <<>> /\ Distinct(playlist)) =>
        /\ lean = playlist
        /\ \A i \in Ids : Count(lean, i) = Count(playlist, i) /\ Count(lean, i) <= 1
        /\ Len(attempts) = Len(playlist)
        /\ \A k \in 1..Len(attempts) :
              attempts[k].id = playlist[k].id /\ attempts[k].invoked = ~dry_run
        /\ \A i \in Ids : ~dry_run => ncm[i] >= Count(playlist, i)
        /\ stdout = <<>>
        /\ skipped = 0
        /\ ~Signalled

C6_Witness ==
    /\ Returned
    /\ lean0 = <<>>
    /\ Distinct(playlist)
    /\ Len(playlist) = NumIds
    /\ ~dry_run
    /\ \A i \in Ids : ncm[i] = 1

\* C7 as claimed: the downloader runs at most once per TrackId, whatever the
\* runs, aborted and killed ones included.
C7_AtMostOnce == \A i \in Ids : ncm[i] <= 1

\* C7 as amended: the downloader runs at most once per TrackId, plus once
\* for every run that ended (killed, or t.save() raising) between download_track
\* and t.save() of that id.
C7_AtMostOncePlusInterrupted == \A i \in Ids : ncm[i] <= 1 + interrupted[i]

C7_Witness ==
    /\ rerun
    /\ Returned
    /\ \A i \in Ids : interrupted[i] = 0
    /\ \E i \in Ids : ncm[i] = 1 /\ Count(playlist, i) >= 2

\* C8: at-least-once acquisition. Without dry_run a record is added to the
\* store only after the downloader ran for its id in the same run; a run that
\* ends between download_track and t.save() leaves the id out of the store;
\* and every track a run has passed whose id was not in the store when the run
\* started had the downloader run for it in that run.
C8_AcquiredBeforeRegistered ==
    /\ Len(lean0) <= Len(lean) /\ SubSeq(lean, 1, Len(lean0)) = lean0
    /\ ~dry_run =>
        /\ \A k \in 1..Len(Registered) :
              \E a \in 1..Len(attempts) :
                  attempts[a].id = Registered[k].id /\ attempts[a].invoked
        /\ \A j \in 1..(idx - 1) :
              \/ playlist[j].id \in IdsOf(lean0)
              \/ \E a \in 1..Len(attempts) :
                    attempts[a].id = playlist[j].id /\ attempts[a].invoked
    /\ Len(attempts) > Len(Registered) =>
        /\ Len(attempts) = Len(Registered) + 1
        /\ Last(attempts).id \notin IdsOf(lean)

\* a run ended between acquiring and registering, and a later run acquired the
\* id again and registered it
C8_Witness ==
    \E i \in Ids :
        /\ interrupted[i] = 1
        /\ ncm[i] = 2
        /\ i \in IdsOf(lean)
        /\ ~dry_run

\* C9: unconditional growth. Every track download_track was called for (which
\* ran the downloader exactly when dry_run is off) is in the store, or is the
\* one the run is about to save (or was, when the run was killed there or
\* t.save() raised); that holds whether the downloader succeeded or failed;
\* every track the loop has passed is in the store in full; and after
\* download_track the run is always at t.save().
C9_RegisteredRegardless ==
    /\ \A k \in 1..Len(attempts) :
          \/ attempts[k].id \in IdsOf(Registered)
          \/ /\ k = Len(attempts)
             /\ pc = "save" \/ result.kind \in {"killed", "uncaught"}
    /\ \A j \in 1..(idx - 1) : playlist[j] \in Range(lean)
    /\ Len(attempts) > Len(Registered) /\ pc # "idle" => pc = "save"
    /\ \A k \in 1..Len(attempts) : attempts[k].invoked = ~dry_run

\* a completed run in which the downloader failed for a track that is
\* registered all the same, with a later track registered after it
C9_Witness ==
    /\ Returned
    /\ ~dry_run
    /\ Len(attempts) >= 2
    /\ ~attempts[1].ok
    /\ attempts[1].id \in IdsOf(Registered)
    /\ attempts[2].id \in IdsOf(Registered)

\* C10 as claimed: all tracks skipped signals, 0 < k < n prints the summary
\* without signalling, k = 0 prints nothing and does not signal.
C10_SkipReport ==
    Returned =>
        /\ skipped = Len(playlist) => Signalled
        /\ (0 < skipped /\ skipped < Len(playlist)) =>
              /\ ~Signalled
              /\ Last(stdout) = Line("Skipped of", "", skipped, Len(playlist))
        /\ skipped = 0 => ~Signalled /\ stdout = <<>>

\* C10 as amended: the run signals exactly when k = n and n > 0; for
\* 0 < k < n it prints "Skipped k of n" after the k SKIP lines and does not
\* signal; for k = 0, the empty playlist included, it prints nothing and does
\* not signal.
C10_SkipReportNonEmpty ==
    Returned =>
        /\ Len(SkipLines) = skipped
        /\ skipped <= Len(playlist)
        /\ Signalled <=> (skipped = Len(playlist) /\ Len(playlist) > 0)
        /\ Signalled => stdout = Append(SkipLines, AllSkippedLine)
        /\ (0 < skipped /\ skipped < Len(playlist)) =>
              stdout = Append(SkipLines, Line("Skipped of", "", skipped, Len(playlist)))
        /\ skipped = 0 => stdout = <<>>

C10_Witness ==
    /\ Returned
    /\ 0 < skipped
    /\ skipped < Len(playlist)
    /\ ~Signalled

\* C11 as claimed: the total the skip count is compared with is the declared
\* trackCount: the run signals "all skipped" exactly when 0 < k = trackCount,
\* and prints "Skipped k of trackCount" exactly when 0 < k # trackCount.
C11_DeclaredCount ==
    Returned =>
        /\ Signalled <=> Raises(skipped, trackCount)
        /\ Summary(skipped, trackCount) =>
              Last(stdout) = Line("Skipped of", "", skipped, trackCount)

\* C11 as amended: the total is the number of tracks actually returned; the
\* declared trackCount has no effect on the classification or on the n that
\* is printed, also when it differs from the number returned.
C11_ReturnedCount ==
    Returned =>
        /\ Signalled <=> Raises(skipped, Len(playlist))
        /\ Summary(skipped, Len(playlist)) <=>
              (stdout # <<>> /\ Last(stdout) = Line("Skipped of", "", skipped, Len(playlist)))
        /\ ~Signalled /\ ~Summary(skipped, Len(playlist)) => stdout = <<>>

\* a run that skipped every returned track while the remote declared more
C11_Witness ==
    /\ Returned
    /\ Signalled
    /\ skipped = Len(playlist)
    /\ trackCount = Len(playlist) + 1

\* ------------------------------------------------ dry-run equivalence
\* what the loop of download leaves after a playlist, from the playlist and
\* the store alone: a track whose id the store holds is skipped, any other
\* track is registered
RECURSIVE Reconciled(_, _)
Reconciled(pl, store) ==
    IF pl = <<>>
    THEN [lean |-> store, out |-> <<>>, skipped |-> 0]
    ELSE LET r == Reconciled(SubSeq(pl, 1, Len(pl) - 1), store)
             t == pl[Len(pl)]
         IN  IF t.id \in IdsOf(r.lean)
             THEN [lean |-> r.lean, out |-> Append(r.out, SkipLine(t)),
                   skipped |-> r.skipped + 1]
             ELSE [lean |-> Append(r.lean, t), out |-> r.out, skipped |-> r.skipped]

\* C17: a completed download run leaves the store, the SKIP lines, the skip
\* count and the summary or AllTracksSkipped outcome that the playlist and the
\* initial store determine, whatever dry_run is; with dry_run the downloader
\* is invoked for none of the tracks acquired, without it for every one.
C17_DryRunEquivalence ==
    Returned =>
        LET e == Reconciled(playlist, lean0)
            n == Len(playlist)
        IN  /\ lean = e.lean
            /\ SkipLines = e.out
            /\ skipped = e.skipped
            /\ Signalled <=> (e.skipped = n /\ n > 0)
            /\ stdout = IF e.skipped = 0 THEN <<>>
                        ELSE IF e.skipped = n THEN Append(e.out, AllSkippedLine)
                        ELSE Append(e.out, Line("Skipped of", "", e.skipped, n))
            /\ [k \in 1..Len(attempts) |-> attempts[k].id] =
                  [k \in 1..Len(Registered) |-> Registered[k].id]
            /\ \A k \in 1..Len(attempts) : attempts[k].invoked = ~dry_run

\* a dry run that registered a track and skipped another
C17_Witness ==
    /\ Returned
    /\ dry_run
    /\ Registered # <<>>
    /\ skipped > 0
    /\ \A k \in 1..Len(attempts) : ~attempts[k].invoked

\* ------------------------------------------------ when the store changes
\* a download run is inside its loop, or ended there: killed, or by an
\* exception nobody catches
InLoop == mode = "download" /\ pc \in {"query", "download_track", "save"}
EndedInLoop ==
    mode = "download" /\ pc = "idle" /\ result.kind \in {"killed", "uncaught"}

\* C18 as claimed: while a download run is in its loop, and after it was
\* aborted or killed there, the store is as it was when the run started.
C18_DeferredCommit ==
    (InLoop \/ EndedInLoop) => lean = lean0

\* C18 as amended: every t.save() is durable at once: at each moment of a
\* download run, and after it was aborted or killed, the store is the initial
\* store followed by the tracks registered so far, one for each track the
\* loop has passed and not skipped, in playlist order.
C18_CommitPerTrack ==
    mode = "download" =>
        /\ idx <= Len(playlist) + 1
        /\ lean = Reconciled(SubSeq(playlist, 1, idx - 1), lean0).lean
        /\ skipped = Reconciled(SubSeq(playlist, 1, idx - 1), lean0).skipped
        /\ Len(Registered) = (idx - 1) - skipped

\* a run killed in the middle of its loop after it had registered a track
C18_Witness ==
    /\ EndedInLoop
    /\ result = Killed
    /\ idx <= Len(playlist)
    /\ Registered # <<>>

\* ------------------------------------------------- two download runs
\* what a step of the second process leaves alone
firstVars == <<pc, stdout, result, runs, mode, dlLocals, attempts, interrupted,
               lean0, rerun, exVars, dfsVars>>

\* the caller's single-instance lock, where there is one: a run starts and
\* steps only while the other process is not running
OtherRunning == other.pc \notin {"idle", "done"}
Serial == other.serialized => ~OtherRunning
OtherSerial == other.serialized => pc = "idle"

\* a second process starts download on the playlist of the first
OtherStart ==
    /\ other.pc = "idle"
    /\ mode = "download"
    /\ playlist # <<>>
    /\ OtherSerial
    /\ other' = [other EXCEPT !.pc = "query", !.idx = 1,
                               !.playlist = playlist, !.dry_run = dry_run]
    /\ UNCHANGED <<firstVars, lean, ncm>>

\* its query.first() finds the id: skip_download
OtherQueryFound ==
    /\ other.pc = "query"
    /\ other.idx <= Len(other.playlist)
    /\ QueryFirst(lean, other.playlist[other.idx].id)
    /\ other' = [other EXCEPT !.idx = @ + 1]
    /\ UNCHANGED <<firstVars, lean, ncm>>

\* its query.first() raises LeanCloudError 101
OtherQueryNotFound ==
    /\ other.pc = "query"
    /\ other.idx <= Len(other.playlist)
    /\ ~QueryFirst(lean, other.playlist[other.idx].id)
    /\ other' = [other EXCEPT !.pc = "download_track"]
    /\ UNCHANGED <<firstVars, lean, ncm>>

\* its download_track
OtherDownloadTrack ==
    /\ other.pc = "download_track"
    /\ ncm' = IF Invokes(other.dry_run)
              THEN [ncm EXCEPT ![other.playlist[other.idx].id] = @ + 1] ELSE ncm
    /\ other' = [other EXCEPT !.pc = "save"]
    /\ UNCHANGED <<firstVars, lean>>

\* its t.save()
OtherSave ==
    /\ other.pc = "save"
    /\ lean' = SaveTrack(lean, other.playlist[other.idx])
    /\ other' = [other EXCEPT !.pc = "query", !.idx = @ + 1]
    /\ UNCHANGED <<firstVars, ncm>>

\* its loop ends, or it is killed
OtherEnd ==
    /\ OtherRunning
    /\ other' = [other EXCEPT !.pc = "done"]
    /\ UNCHANGED <<firstVars, lean, ncm>>

InitConc ==
    /\ pc = "idle"
    /\ playlist = <<>>
    /\ trackCount = 0
    /\ dry_run = FALSE
    /\ idx = 1
    /\ skipped = 0
    /\ lean = <<>>
    /\ ncm = [i \in Ids |-> 0]
    /\ stdout = <<>>
    /\ result = NoResult
    /\ attempts = <<>>
    /\ interrupted = [i \in Ids |-> 0]
    /\ lean0 = <<>>
    /\ rerun = FALSE
    /\ runs = 0
    /\ fs = [p \in Paths \cup {Tmp} |-> Absent]
    /\ ser = NoSer
    /\ history = {}
    /\ meta = <<>>
    /\ missing = {}
    /\ todo = 0
    /\ fetches = <<>>
    /\ mode = ""
    /\ other \in {[NoOther EXCEPT !.serialized = b] : b \in BOOLEAN}
    /\ dfs_track = [q \in Qualities |-> NoVariant]
    /\ qualities = <<>>
    /\ dfsid = NoCall

NextConc ==
    \/ Next /\ Serial
    \/ OtherStart
    \/ OtherQueryFound
    \/ OtherQueryNotFound
    \/ OtherDownloadTrack
    \/ OtherSave
    \/ OtherEnd
SpecConc == InitConc /\ [][NextConc]_vars

\* C19: with the two runs serialized by the caller no id is registered twice
\* (so none is both acquired twice and registered twice); without the lock
\* the two runs can interleave query.first and t.save so that an id is
\* acquired twice and registered twice, which is the state C19_Witness names.
C19_SerializedRunsSafe ==
    other.serialized =>
        \A i \in Ids :
            /\ Count(lean, i) <= 1
            /\ ~(ncm[i] >= 2 /\ Count(lean, i) >= 2)

\* two interleaved runs: the same id acquired twice and registered twice
C19_Witness ==
    /\ ~other.serialized
    /\ \E i \in Ids :
          /\ ncm[i] = 2
          /\ Count(lean, i) = 2

\* ---------------------------------------------------------- dfs_id
\* track[quality] as dfs_id may find it: the key absent, the value None, a
\* record without 'dfsId', a record whose dfsId is None, a record with a dfsId
Variant ==
    {NoVariant}
    \cup {[state |-> st, dfsId |-> 0] : st \in {"null", "nokey", "nullid"}}
    \cup {[state |-> "id", dfsId |-> n] : n \in 1..MaxDfsId}

\* quality in track
InTrack(v) == v.state # "absent"
\* track[quality] is None
IsNone(v) == v.state = "null"
\* 'dfsId' in track[quality]
HasDfsId(v) == v.state \in {"nullid", "id"}

\* mutant: a null dfsId returned like any other
DfsIdIsNoneNever(v) == FALSE

\* dfsid is None
DfsIdIsNone(v) == v.state = "nullid"

\* dfs_id(track, qualities), from the k-th quality of the tuple on: the for
\* loop returns at the first quality that passes the four tests, and its
\* else clause raises KeyError when the tuple is exhausted
RECURSIVE dfs_id(_, _, _)
dfs_id(trk, quals, k) ==
    IF k > Len(quals)
    THEN [out |-> "KeyError", val |-> 0]
    ELSE LET v == trk[quals[k]] IN
         IF InTrack(v)
         THEN IF IsNone(v)
              THEN dfs_id(trk, quals, k + 1)
              ELSE IF HasDfsId(v)
                   THEN IF DfsIdIsNone(v)
                        THEN dfs_id(trk, quals, k + 1)
                        ELSE [out |-> "return", val |-> v.dfsId]
                   ELSE dfs_id(trk, quals, k + 1)
         ELSE dfs_id(trk, quals, k + 1)

\* a call of dfs_id on the chosen track and preference tuple
CallDfsId ==
    /\ dfsid = NoCall
    /\ dfsid' = dfs_id(dfs_track, qualities, 1)
    /\ UNCHANGED <<pc, stdout, result, runs, mode, other, dfs_track, qualities,
                   dlVars, exVars>>

InitDfs ==
    /\ pc = "idle"
    /\ playlist = <<>>
    /\ trackCount = 0
    /\ dry_run = FALSE
    /\ idx = 1
    /\ skipped = 0
    /\ lean = <<>>
    /\ ncm = [i \in Ids |-> 0]
    /\ stdout = <<>>
    /\ result = NoResult
    /\ attempts = <<>>
    /\ interrupted = [i \in Ids |-> 0]
    /\ lean0 = <<>>
    /\ rerun = FALSE
    /\ runs = 0
    /\ fs = [p \in Paths \cup {Tmp} |-> Absent]
    /\ ser = NoSer
    /\ history = {}
    /\ meta = <<>>
    /\ missing = {}
    /\ todo = 0
    /\ fetches = <<>>
    /\ mode = ""
    /\ other = NoOther
    /\ dfs_track \in [Qualities -> Variant]
    /\ qualities \in SeqsUpTo(Qualities, MaxPref)
    /\ dfsid = NoCall

NextDfs == CallDfsId
SpecDfs == InitDfs /\ [][NextDfs]_vars

\* the k-th quality of the tuple names a variant with a non-null dfsId
Usable(k) == dfs_track[qualities[k]].state = "id"

\* C12: dfs_id returns the dfsId of the first quality in preference order that
\* is present, not null, has a dfsId key and a non-null dfsId; what it returns
\* is the dfsId of a variant named in the tuple; it raises KeyError exactly
\* when no quality of the tuple is usable.
C12_QualitySelection ==
    dfsid # NoCall =>
        /\ dfsid.out \in {"return", "KeyError"}
        /\ dfsid.out = "KeyError" <=> ~\E k \in 1..Len(qualities) : Usable(k)
        /\ \A k \in 1..Len(qualities) :
              (Usable(k) /\ \A j \in 1..(k - 1) : ~Usable(j)) =>
                  dfsid = [out |-> "return", val |-> dfs_track[qualities[k]].dfsId]
        /\ dfsid.out = "return" =>
              \E k \in 1..Len(qualities) :
                  Usable(k) /\ dfsid.val = dfs_track[qualities[k]].dfsId

\* the first quality has a null dfsId, the second a usable one, and a quality
\* outside the tuple carries a different dfsId
C12_Witness ==
    /\ dfsid.out = "return"
    /\ Len(qualities) > 1
    /\ dfs_track[qualities[1]].state = "nullid"
    /\ Usable(2)
    /\ \E q \in Qualities :
          /\ \A k \in 1..Len(qualities) : qualities[k] # q
          /\ dfs_track[q].state = "id"
          /\ dfs_track[q].dfsId # dfsid.val

\* ------------------------------------------------ update_meta rounds
\* the ids export_history asked update_meta for, and those no round returned
Requested == IF fetches = <<>> THEN {} ELSE fetches[1].asked
NeverReturned == Requested \ UNION {fetches[j].got : j \in 1..Len(fetches)}
CannotFetchLines == SelectSeq(stdout, LAMBDA l : l.kind = "Cannot fetch")
\* the modes of main that run export_history
ExportModes == {"export_history", "migrate"}
InUpdateMeta == mode \in ExportModes /\ pc = "update_meta"
\* update_meta has returned to export_history
UpdateMetaReturned == mode \in ExportModes /\ pc = "save_meta"

\* C13: update_meta is entered with todo = |missing|; every round after the
\* first asks for a strict subset of what the round before asked for, so the
\* rounds made plus the ids still to ask for never exceed the ids first asked
\* for, and the number of rounds is at most |missing|, whatever the remote
\* answers.
C13_BoundedRounds ==
    /\ InUpdateMeta => todo = Cardinality(missing)
    /\ (InUpdateMeta /\ fetches # <<>>) =>
          /\ missing # {}
          /\ Len(fetches) + Cardinality(missing) <= Cardinality(Requested)
    /\ mode \in ExportModes =>
          /\ Len(fetches) <= Cardinality(Requested)
          /\ \A j \in 2..Len(fetches) :
                /\ fetches[j].asked = fetches[j - 1].asked \ fetches[j - 1].got
                /\ fetches[j].asked \subseteq fetches[j - 1].asked
                /\ fetches[j].asked # fetches[j - 1].asked

\* two rounds were made for two missing ids and the second fetched nothing
C13_Witness ==
    /\ UpdateMetaReturned
    /\ Len(fetches) = 2
    /\ Cardinality(Requested) = 2
    /\ fetches[2].asked \cap fetches[2].got = {}

\* C14: when update_meta has returned, "Cannot fetch n" was printed exactly
\* once if some requested id was returned by no round and not at all
\* otherwise; n is the number of requested ids no round returned; every round
\* but the last fetched something it asked for; and the call returned to
\* export_history without raising.
C14_MissingReport ==
    UpdateMetaReturned =>
        /\ NeverReturned # {} =>
              CannotFetchLines = <<Line("Cannot fetch", "", Cardinality(NeverReturned), 0)>>
        /\ NeverReturned = {} => CannotFetchLines = <<>>
        /\ \A j \in 1..(Len(fetches) - 1) :
              fetches[j].asked \cap fetches[j].got # {}
        /\ result = NoResult

\* a first round fetched one of two ids, the second nothing: one report of 1
C14_Witness ==
    /\ UpdateMetaReturned
    /\ Len(fetches) = 2
    /\ fetches[1].asked \cap fetches[1].got # {}
    /\ fetches[2].got = {}
    /\ CannotFetchLines = <<Line("Cannot fetch", "", 1, 0)>>

\* ------------------------------------------------- the load contract
\* the file exists and neither pickle.load nor json.load can parse it
Unparseable(f) == f.fmt \notin {"absent", "pickle", "json"}
\* export_history goes on to update_history with what the loads returned
LoadsReturn(h, m) ==
    /\ pc' = "update_history"
    /\ result' = result
    /\ history' = h
    /\ meta' = m
\* the run ends in the loads with the given exit, nothing written
LoadsAbort(r) ==
    /\ pc' = "idle"
    /\ result' = r
    /\ fs' = fs
    /\ ser' = ser

StrictlyAscending(s) == \A j, k \in 1..Len(s) : j < k => s[j] < s[k]
\* save_history has returned inside update_history
HistorySaved == mode \in ExportModes /\ pc = "json_dump"
\* update_history has returned to export_history
UpdateHistoryReturned == mode \in ExportModes /\ pc = "update_meta" /\ fetches = <<>>

\* C16: when update_history has saved the ledger, the history file holds the
\* previous ledger united with the ids of the deduplicated metadata; when it
\* has returned, songs_id.json holds a strictly ascending array of ids whose
\* set is the set in the history file.
C16_ExportedHistory ==
    /\ HistorySaved =>
          /\ ser.path = "history"
          /\ fs["history"].fmt = "pickle"
          /\ fs["history"].kind = "SortedSet"
          /\ Range(fs["history"].data) = LoadHistory(ser.old).val \cup IdsOf(meta)
          /\ Range(fs["history"].data) = history
    /\ UpdateHistoryReturned =>
          /\ fs["songs_id.json"].fmt = "json"
          /\ StrictlyAscending(fs["songs_id.json"].data)
          /\ Range(fs["songs_id.json"].data) = Range(fs["history"].data)
          /\ Range(fs["songs_id.json"].data) = history

\* update_history returned with two ids exported, one of them missing from
\* the metadata and the metadata not empty
C16_Witness ==
    /\ UpdateHistoryReturned
    /\ Len(fs["songs_id.json"].data) = 2
    /\ Cardinality(missing) = 1
    /\ meta # <<>>

\* ------------------------------------------------- export coverage
\* export_history has run to its end: save_meta has replaced meta.json
ExportCompleted ==
    /\ mode \in ExportModes
    /\ pc = "idle"
    /\ result = Exit(EX_OK, "export_history")
\* every round of songs_detail answered with requested ids only
OnlyRequested == \A j \in 1..Len(fetches) : fetches[j].got \subseteq fetches[j].asked
SavedMeta == fs["meta.json"].data
\* the position of the first record with id i in m
FirstIndex(m, i) == Min({k \in 1..Len(m) : m[k].id = i})

\* C20: when export_history has completed and the remote answered with
\* requested ids only, every id of the history file has a record in meta.json
\* or is one of the n ids of the one "Cannot fetch n" report; and when no id of
\* the ledger was missing from the metadata, no fetch was made and meta.json
\* holds the loaded metadata deduplicated: one record per id, the last one
\* loaded with that id, in the order the ids first appeared.
C20_ExportCoverage ==
    (ExportCompleted /\ OnlyRequested) =>
        /\ fs["history"].fmt = "pickle"
        /\ fs["meta.json"].fmt = "json"
        /\ \A i \in Range(fs["history"].data) :
              \/ i \in IdsOf(SavedMeta)
              \/ /\ i \in NeverReturned
                 /\ CannotFetchLines =
                        <<Line("Cannot fetch", "", Cardinality(NeverReturned), 0)>>
        /\ missing = {} =>
              LET loaded == LoadMeta(ser.old).val IN
              /\ fetches = <<>>
              /\ ser.path = "meta.json"
              /\ Distinct(SavedMeta)
              /\ IdsOf(SavedMeta) = IdsOf(loaded)
              /\ \A k \in 1..Len(SavedMeta) :
                    \E p \in 1..Len(loaded) :
                        /\ loaded[p] = SavedMeta[k]
                        /\ \A q \in (p + 1)..Len(loaded) : loaded[q].id # SavedMeta[k].id
              /\ \A j, k \in 1..Len(SavedMeta) :
                    j < k => FirstIndex(loaded, SavedMeta[j].id)
                               < FirstIndex(loaded, SavedMeta[k].id)

\* an export that fetched one missing id and reported the other as gone
C20_Witness ==
    /\ ExportCompleted
    /\ OnlyRequested
    /\ Cardinality(Requested) = 2
    /\ Cardinality(NeverReturned) = 1
    /\ IdsOf(SavedMeta) # {}

\* ------------------------------------------ export and migrate runs
\* the files an earlier version or an earlier run left in ~/.fm163
HistoryFiles ==
    {Absent, Empty, Corrupt}
    \cup {EncodeHistory(S) : S \in SUBSET Ids}
    \cup {Pickled("list", s) : s \in SeqsUpTo(Ids, MaxOld)}
MetaFiles ==
    {Absent, Empty, Corrupt} \cup {Json(m) : m \in SeqsUpTo(Track, MaxMeta)}

InitEx ==
    /\ pc = "idle"
    /\ playlist = <<>>
    /\ dry_run = FALSE
    /\ idx = 1
    /\ skipped = 0
    /\ lean = <<>>
    /\ ncm = [i \in Ids |-> 0]
    /\ stdout = <<>>
    /\ result = NoResult
    /\ attempts = <<>>
    /\ interrupted = [i \in Ids |-> 0]
    /\ lean0 = <<>>
    /\ rerun = FALSE
    /\ runs = 0
    /\ \E h \in HistoryFiles, m \in MetaFiles :
         fs = [p \in Paths \cup {Tmp} |->
                 IF p = "history" THEN h ELSE IF p = "meta.json" THEN m ELSE Absent]
    /\ ser = NoSer
    /\ history = {}
    /\ meta = <<>>
    /\ missing = {}
    /\ todo = 0
    /\ fetches = <<>>
    /\ mode = ""
    /\ trackCount = 0
    /\ Unused

NextEx ==
    \/ StartExport
    \/ StartMigrate
    \/ Migrate
    \/ ExportHistory
    \/ UpdateHistory
    \/ JsonDumpIds
    \/ UpdateMetaPass
    \/ UpdateMeta
    \/ SaveMeta
    \/ Mkstemp
    \/ Write
    \/ WriteEnd
    \/ SerializerError
    \/ Replace
    \/ Kill

SpecEx == InitEx /\ [][NextEx]_vars

\* --------------------------------------------- persistence: properties
\* C1: atomic write. No file of the store is ever a partly written one, and
\* from the moment serialize is entered, through every step of it and after a
\* kill at any of them, its destination holds either the complete version it
\* held before the call or the complete new one.
C1_AtomicDestination ==
    /\ \A p \in Paths : fs[p].fmt # "partial"
    /\ ser.path # "" => fs[ser.path] \in {ser.old, ser.new}
    /\ (ser.path # "" /\ pc \in {"mkstemp", "write", "replace"}) => fs[ser.path] = ser.old

\* killed in the middle of writing a new version over an existing one
C1_Witness ==
    /\ result = Killed
    /\ pc = "idle"
    /\ ser.path # ""
    /\ ser.old.fmt \in {"pickle", "json"}
    /\ ser.old # ser.new
    /\ fs[Tmp].fmt = "partial"
    /\ 0 < Len(fs[Tmp].data)
    /\ Len(fs[Tmp].data) < Len(ser.new.data)
    /\ fs[ser.path] = ser.old

\* C2: when the serializer raises, the temporary file is never renamed (it
\* stays behind, partly written), the destination is what it was before the
\* call, and the run has ended in bug() with EX_SOFTWARE.
C2_SerializerFailure ==
    result.why = "serializer" =>
        /\ pc = "idle"
        /\ result = Exit(EX_SOFTWARE, "serializer")
        /\ fs[ser.path] = ser.old
        /\ fs[Tmp].fmt = "partial"
        /\ fs[Tmp].data = SubSeq(ser.new.data, 1, ser.written)

C2_Witness ==
    /\ result.why = "serializer"
    /\ ser.written > 0
    /\ ser.old.fmt \in {"pickle", "json"}
    /\ ser.old # ser.new
    /\ fs[ser.path] = ser.old

\* C4: after export_history has run to its end, save_meta included, meta.json
\* holds no two records with the same TrackId.
C4_NoDuplication ==
    (pc = "idle" /\ result = Exit(EX_OK, "export_history") /\ ser.path = "meta.json") =>
        /\ fs["meta.json"] = EncodeMeta(meta)
        /\ \A i \in Ids : Count(fs["meta.json"].data, i) <= 1

\* ------------------------------------------------- runs of every mode
NextAll == Next \/ NextEx

SpecAll == InitEx /\ [][NextAll]_vars

\* the TrackIds of the persisted ledger
LedgerIds ==
    IF fs["history"].fmt = "pickle" THEN Range(fs["history"].data) ELSE {}

\* C3: monotonicity. No step of a download, export_history or migrate run,
\* in any sequence of runs, removes a TrackId from the history file or from
\* the store download queries.
C3_Monotonic ==
    [][LedgerIds \subseteq LedgerIds' /\ IdsOf(lean) \subseteq IdsOf(lean')]_vars

\* export_history has just replaced a non-empty ledger by a larger one, and
\* download has registered a track
C3_Witness ==
    /\ pc = "json_dump"
    /\ ser.path = "history"
    /\ ser.old.fmt = "pickle"
    /\ ser.old.data # <<>>
    /\ Range(ser.old.data) # Range(ser.new.data)
    /\ Range(ser.old.data) \subseteq LedgerIds
    /\ fs["history"] = ser.new
    /\ lean # <<>>
====
